---------------------------- MODULE Spec2Model ----------------------------
(***************************************************************************)
(* Clinic booking backend: the available-slots computation                 *)
(* (AvailableSlotsService.getAvailableSlots) over the tables it reads:     *)
(* services, doctors, doctor_services, doctor_schedules and bookings, and  *)
(* the writers of those tables that run beside it: createBooking and       *)
(* getBookingById of BookingsService and handleWebhook of SepayService.    *)
(*                                                                         *)
(* Representation                                                          *)
(*   - a nullable column is NULL (the empty tuple) or Some(v) = <<v>>;     *)
(*   - a time of day "HH:MM:SS" is the tuple <<hh, mm, ss>>, a slot label  *)
(*     "HH:MM" is the tuple <<hh, mm>>;                                    *)
(*   - a JavaScript Map is the sequence of its <<key, value>> entries in   *)
(*     insertion order, which is the order Array.from(map.entries())       *)
(*     yields;                                                             *)
(*   - the id of a booking is its position in the table bookings (no row   *)
(*     is ever deleted), and BookingUuid(k) is the UUID it is known by;    *)
(*   - a text is the sequence of its characters;                           *)
(*   - the clock counts minutes.                                           *)
(*                                                                         *)
(* Specifications                                                          *)
(*   Spec      one request answered in one step from a store at rest;      *)
(*   SpecCall  one call of getAvailableSlots running read by read while    *)
(*             bookings are created and shifts are withdrawn;              *)
(*   SpecBook  a request answered, then bookings created;                  *)
(*   SpecLife  createBooking, getBookingById and handleWebhook running     *)
(*             await by await beside each other while the clock moves on;  *)
(*   SpecExpiry  pending bookings grow old and are polled, and a request   *)
(*             for slots is answered.                                      *)
(***************************************************************************)
EXTENDS Integers, Sequences, FiniteSets, TLC

VARIABLES
    services,           \* table services: set of rows [id, duration_minutes]
    doctors,            \* table doctors: set of rows [id, clinic_id, is_available]
    doctor_services,    \* table doctor_services: set of rows [doctor_id, service_id]
    doctor_schedules,   \* table doctor_schedules: rows in the order the data layer returns them
    bookings,           \* table bookings: rows in the order the data layer returns them
    payments,           \* table payments: rows [booking_id, amount, method, status]
    response,           \* outcome of the request handled last
    call,               \* the call of getAvailableSlots in progress: its position and locals
    trail,              \* the contents the store went through since the request was received
    clock,              \* the clock of the server and of the data layer, in minutes
    createCall,         \* the call of createBooking in progress or returned last
    getCall,            \* the call of getBookingById in progress or returned last
    hookCall            \* the call of handleWebhook in progress or returned last

vars ==
    <<services, doctors, doctor_services, doctor_schedules, bookings, payments,
      response, call, trail, clock, createCall, getCall, hookCall>>

store == <<services, doctors, doctor_services, doctor_schedules, bookings, payments>>

\* the clock and the calls of the booking side
life == <<clock, createCall, getCall, hookCall>>

\* the tables, as the handlers are given them
Db ==
    [services |-> services, doctors |-> doctors, doctor_services |-> doctor_services,
     doctor_schedules |-> doctor_schedules, bookings |-> bookings, payments |-> payments]

-----------------------------------------------------------------------------
(* Values *)

NULL == <<>>

Some(v) == <<v>>

\* faulty variant: JavaScript's  x || d, which replaces a stored 0 as well
Coalesce_Falsy(x, d) == IF x = NULL \/ x[1] = 0 THEN d ELSE x[1]

\* JavaScript's  x ?? d
Coalesce(x, d) == IF x = NULL THEN d ELSE x[1]

\* the fallback of  service.duration_minutes ?? 30
DefaultDuration == 30

\* a query parameter that is absent from the request, or the empty string
Missing == NULL

ClinicIds == {"c1", "c2"}

ServiceIds == {"s1", "s2"}

DoctorIds == {"doc1", "doc2"}

\* calendar dates, as day numbers
Dates == {1, 2}

BookingStatuses == {"pending", "paid", "expired"}

\* JavaScript's remainder a % b (the sign follows the dividend)
JsMod(a, b) == IF a >= 0 THEN a % b ELSE -((-a) % b)

Max(a, b) == IF a >= b THEN a ELSE b

-----------------------------------------------------------------------------
(* Time-of-day conversions *)

\* timeToMinutes: t.split(':') and the first two fields, so that it reads
\* a label "HH:MM" as well as a column value "HH:MM:SS"
timeToMinutes(t) == t[1] * 60 + t[2]

\* minutesToHHMM: Math.floor(mins / 60) and mins % 60, each padded to two digits
minutesToHHMM(mins) == <<mins \div 60, JsMod(mins, 60)>>

\* faulty variant: a booking is counted at the half hour it falls in
bookingLabel_HalfHour(booking_time) ==
    <<booking_time.time[1], 30 * (booking_time.time[2] \div 30)>>

\* String(b.booking_time).slice(11, 16): the HH:MM of a stored timestamp
bookingLabel(booking_time) == <<booking_time.time[1], booking_time.time[2]>>

\* order of timestamps, as the data layer compares them in gte / lte
Seconds(time) == time[1] * 3600 + time[2] * 60 + time[3]

TsLeq(a, b) ==
    \/ a.date < b.date
    \/ a.date = b.date /\ Seconds(a.time) <= Seconds(b.time)

-----------------------------------------------------------------------------
(* The reads of the data layer *)

Tables == {"services", "doctors", "doctor_schedules", "bookings"}

\* faulty variant: the filter on id is missing
ReadService_AnyRow(table, service_id, fail) ==
    IF fail = "services" \/ Cardinality(table) # 1
    THEN [data |-> NULL, error |-> TRUE]
    ELSE [data |-> Some(CHOOSE s \in table : TRUE), error |-> FALSE]

\* from('services').select('duration_minutes').eq('id', service_id).single():
\* an error unless exactly one row matches
ReadService(table, service_id, fail) ==
    LET rows == {s \in table : s.id = service_id}
    IN  IF fail = "services" \/ Cardinality(rows) # 1
        THEN [data |-> NULL, error |-> TRUE]
        ELSE [data |-> Some(CHOOSE s \in rows : TRUE), error |-> FALSE]

\* faulty variant: the filter on is_available is missing
DoctorSelected_Unavailable(d, links, clinic_id, service_id) ==
    /\ d.clinic_id = clinic_id
    /\ \E ds \in links : ds.doctor_id = d.id /\ ds.service_id = service_id

\* from('doctors').select('id, doctor_services!inner(service_id)')
\*   .eq('clinic_id', ..).eq('is_available', true).eq('doctor_services.service_id', ..)
DoctorSelected(d, links, clinic_id, service_id) ==
    /\ d.clinic_id = clinic_id
    /\ d.is_available = TRUE
    /\ \E ds \in links : ds.doctor_id = d.id /\ ds.service_id = service_id

ReadDoctors(table, links, clinic_id, service_id) ==
    {d \in table : DoctorSelected(d, links, clinic_id, service_id)}

\* from('doctor_schedules').eq('date', date).eq('is_available', true).in('doctor_id', doctorIds)
ScheduleSelected(s, date, doctorIds) ==
    /\ s.date = date
    /\ s.is_available = TRUE
    /\ s.doctor_id \in doctorIds

ReadSchedules(table, date, doctorIds) ==
    SelectSeq(table, LAMBDA s : ScheduleSelected(s, date, doctorIds))

\* faulty variant: the status filter is missing
BookingSelected_AnyStatus(b, clinic_id, service_id, date) ==
    /\ b.clinic_id = clinic_id
    /\ b.service_id = service_id
    /\ TsLeq([date |-> date, time |-> <<0, 0, 0>>], b.booking_time)
    /\ TsLeq(b.booking_time, [date |-> date, time |-> <<23, 59, 59>>])

\* from('bookings').eq('clinic_id', ..).eq('service_id', ..).in('status', ['pending', 'paid'])
\*   .gte('booking_time', `${date} 00:00:00`).lte('booking_time', `${date} 23:59:59`)
BookingSelected(b, clinic_id, service_id, date) ==
    /\ b.clinic_id = clinic_id
    /\ b.service_id = service_id
    /\ b.status \in {"pending", "paid"}
    /\ TsLeq([date |-> date, time |-> <<0, 0, 0>>], b.booking_time)
    /\ TsLeq(b.booking_time, [date |-> date, time |-> <<23, 59, 59>>])

ReadBookings(table, clinic_id, service_id, date) ==
    SelectSeq(table, LAMBDA b : BookingSelected(b, clinic_id, service_id, date))

-----------------------------------------------------------------------------
(* Maps *)

MapHas(m, k) == \E i \in 1..Len(m) : m[i][1] = k

\* map.get(k) ?? d
MapGet(m, k, d) ==
    IF MapHas(m, k) THEN m[CHOOSE i \in 1..Len(m) : m[i][1] = k][2] ELSE d

\* map.set(k, v): an existing key keeps its position, a new key is appended
MapSet(m, k, v) ==
    IF MapHas(m, k)
    THEN [i \in 1..Len(m) |-> IF m[i][1] = k THEN <<k, v>> ELSE m[i]]
    ELSE Append(m, <<k, v>>)

-----------------------------------------------------------------------------
(* The computation of getAvailableSlots *)

\* faulty variant: a label is counted once, however many bookings it has
RECURSIVE CountBookings_Once(_, _)
CountBookings_Once(rows, bookedByTime) ==
    IF rows = <<>> THEN bookedByTime
    ELSE CountBookings_Once(Tail(rows),
                            MapSet(bookedByTime, bookingLabel(Head(rows).booking_time), 1))

\* bookedByTime: the loop over the bookings read
RECURSIVE CountBookings(_, _)
CountBookings(rows, bookedByTime) ==
    IF rows = <<>> THEN bookedByTime
    ELSE LET hhmm == bookingLabel(Head(rows).booking_time)
         IN  CountBookings(Tail(rows),
                           MapSet(bookedByTime, hhmm, MapGet(bookedByTime, hhmm, 0) + 1))

\* faulty variant: a slot is emitted whenever it starts within the shift
WalkContinues_StartFits(t, duration, end) == t <= end

\* faulty variant: a slot that ends exactly at end_time is not emitted
WalkContinues_Strict(t, duration, end) == t + duration < end

\* the inner loop  for (let t = start; t + duration <= end; t += duration)
WalkContinues(t, duration, end) == t + duration <= end

\* faulty variant: the last shift's capacity replaces the running total
AddCapacity_Overwrites(capacityByTime, hhmm, capPerSlot) ==
    MapSet(capacityByTime, hhmm, capPerSlot)

\* faulty variant: every shift counts for one patient
AddCapacity_CountsShifts(capacityByTime, hhmm, capPerSlot) ==
    MapSet(capacityByTime, hhmm, MapGet(capacityByTime, hhmm, 0) + 1)

\* capacityByTime.set(hhmm, (capacityByTime.get(hhmm) ?? 0) + capPerSlot)
AddCapacity(capacityByTime, hhmm, capPerSlot) ==
    MapSet(capacityByTime, hhmm, MapGet(capacityByTime, hhmm, 0) + capPerSlot)

RECURSIVE WalkShift(_, _, _, _, _)
WalkShift(capacityByTime, t, end, duration, capPerSlot) ==
    IF WalkContinues(t, duration, end)
    THEN WalkShift(AddCapacity(capacityByTime, minutesToHHMM(t), capPerSlot),
                   t + duration, end, duration, capPerSlot)
    ELSE capacityByTime

\* the inner loop never ends: its condition holds on entry and t never passes end
WalkDiverges(s, duration) ==
    /\ duration <= 0
    /\ WalkContinues(timeToMinutes(s.start_time), duration, timeToMinutes(s.end_time))

\* capacityByTime: the loop over the schedules read
RECURSIVE CapacityByTime(_, _, _)
CapacityByTime(rows, duration, capacityByTime) ==
    IF rows = <<>> THEN capacityByTime
    ELSE LET s == Head(rows)
         IN  CapacityByTime(Tail(rows), duration,
                 WalkShift(capacityByTime, timeToMinutes(s.start_time),
                           timeToMinutes(s.end_time), duration,
                           Coalesce(s.max_patients, 0)))

\* .map(([time, capacity]) => ({ time, capacity, booked, available }))
SlotStat(entry, bookedByTime) ==
    LET booked == MapGet(bookedByTime, entry[1], 0)
    IN  [time |-> entry[1], capacity |-> entry[2], booked |-> booked,
         available |-> Max(entry[2] - booked, 0)]

\* faulty variant: fully booked slots are kept
Bookable_KeepsFull(s) == s.available >= 0

\* faulty variant: a slot with one place left is dropped
Bookable_DropsLast(s) == s.available > 1

\* .filter((s) => s.available > 0)
Bookable(s) == s.available > 0

\* faulty variant: the comparator is reversed
SortBefore_Reversed(a, b) == timeToMinutes(b.time) - timeToMinutes(a.time) <= 0

\* .sort((a, b) => timeToMinutes(a.time) - timeToMinutes(b.time)): a stable sort
SortBefore(a, b) == timeToMinutes(a.time) - timeToMinutes(b.time) <= 0

RECURSIVE Insert(_, _)
Insert(sorted, x) ==
    IF sorted = <<>> THEN <<x>>
    ELSE IF SortBefore(sorted[Len(sorted)], x) THEN Append(sorted, x)
    ELSE Append(Insert(SubSeq(sorted, 1, Len(sorted) - 1), x), sorted[Len(sorted)])

\* faulty variant: the entries stay in the order of the map
SortSlots_Unsorted(slots) == slots

RECURSIVE SortSlots(_)
SortSlots(slots) ==
    IF slots = <<>> THEN <<>>
    ELSE Insert(SortSlots(SubSeq(slots, 1, Len(slots) - 1)), slots[Len(slots)])

BuildResult(capacityByTime, bookedByTime) ==
    SortSlots(SelectSeq([i \in 1..Len(capacityByTime) |->
                            SlotStat(capacityByTime[i], bookedByTime)],
                        Bookable))

\* faulty variant: no bookings short-circuits to the empty result
computeSlots_NeedsBookings(schedules, rows, duration) ==
    IF rows = <<>> THEN <<>>
    ELSE BuildResult(CapacityByTime(schedules, duration, <<>>), CountBookings(rows, <<>>))

\* the part of getAvailableSlots after the last read: both indexes, then the result
computeSlots(schedules, rows, duration) ==
    BuildResult(CapacityByTime(schedules, duration, <<>>), CountBookings(rows, <<>>))

-----------------------------------------------------------------------------
(* The handler *)

Reply(outcome, body) == [outcome |-> outcome, body |-> body]

\* AvailableSlotsService.getAvailableSlots on the tables db; fail names the
\* read the data layer answers with an error ("none": every read succeeds)
getAvailableSlots(db, clinic_id, service_id, date, fail) ==
    IF clinic_id = Missing \/ service_id = Missing \/ date = Missing
    THEN Reply("BadRequest", <<>>)
    ELSE
    LET service == ReadService(db.services, service_id[1], fail) IN
    IF service.error \/ service.data = NULL
    THEN Reply("NotFound", <<>>)
    ELSE
    LET duration == Coalesce(service.data[1].duration_minutes, DefaultDuration)
        docs == ReadDoctors(db.doctors, db.doctor_services, clinic_id[1], service_id[1])
    IN
    IF fail = "doctors" THEN Reply("Error", <<>>)
    ELSE IF docs = {} THEN Reply("ok", <<>>)
    ELSE
    LET doctorIds == {d.id : d \in docs}
        schedules == ReadSchedules(db.doctor_schedules, date[1], doctorIds)
    IN
    IF fail = "doctor_schedules" THEN Reply("Error", <<>>)
    ELSE IF schedules = <<>> THEN Reply("ok", <<>>)
    ELSE
    LET rows == ReadBookings(db.bookings, clinic_id[1], service_id[1], date[1]) IN
    IF fail = "bookings" THEN Reply("Error", <<>>)
    ELSE IF \E i \in 1..Len(schedules) : WalkDiverges(schedules[i], duration)
    THEN Reply("diverges", <<>>)
    ELSE Reply("ok", computeSlots(schedules, rows, duration))

-----------------------------------------------------------------------------
(* Bounded contents of the data store *)

MaxSchedules == 2

MaxBookings == 2

\* sequences over S of length at most n
RECURSIVE SeqsUpTo(_, _)
SeqsUpTo(S, n) ==
    IF n = 0 THEN {<<>>}
    ELSE LET shorter == SeqsUpTo(S, n - 1)
         IN  shorter \cup {Append(q, x) : q \in {r \in shorter : Len(r) = n - 1}, x \in S}

DurationValues == {NULL, Some(20), Some(0)}

MaxPatientsValues == {NULL, Some(1), Some(2)}

\* 07:00-08:00, 07:00-07:50, 07:30-08:00
Shifts == {<<<<7, 0, 0>>, <<8, 0, 0>>>>, <<<<7, 0, 0>>, <<7, 50, 0>>>>,
           <<<<7, 30, 0>>, <<8, 0, 0>>>>}

\* 07:00:00, 07:10:00, 07:30:30
BookingTimes == {<<7, 0, 0>>, <<7, 10, 0>>, <<7, 30, 30>>}

DoctorRow == [id : DoctorIds, clinic_id : ClinicIds, is_available : BOOLEAN]

DoctorServiceRow == [doctor_id : DoctorIds, service_id : ServiceIds]

ScheduleRow ==
    {[doctor_id |-> d, date |-> dt, start_time |-> sh[1], end_time |-> sh[2],
      max_patients |-> m, is_available |-> a] :
        d \in DoctorIds, dt \in Dates, sh \in Shifts, m \in MaxPatientsValues,
        a \in BOOLEAN}

BookingRow ==
    {[clinic_id |-> c, service_id |-> s, booking_time |-> [date |-> dt, time |-> t],
      status |-> st, created_at |-> 0] :
        c \in ClinicIds, s \in ServiceIds, dt \in Dates, t \in BookingTimes,
        st \in BookingStatuses}

-----------------------------------------------------------------------------
(* Request and response values *)

FailChoices == {"none"} \cup Tables

Request ==
    [clinic_id : {Some(c) : c \in ClinicIds}, service_id : {Some(s) : s \in ServiceIds},
     date : {Some(d) : d \in Dates}, fail : FailChoices]

NoRequest == [clinic_id |-> Missing, service_id |-> Missing, date |-> Missing, fail |-> "none"]

NoResponse == [op |-> "none", req |-> NoRequest, outcome |-> "none", body |-> <<>>]

\* no call of getAvailableSlots is in progress
NoCall ==
    [pc |-> "idle", req |-> NoRequest, duration |-> NULL, doctorIds |-> {},
     schedules |-> <<>>, issued |-> <<>>, outcome |-> "none", body |-> <<>>]

\* amount: 2000 of the payment createBooking creates
PaymentAmount == 2000

\* the row of payments that createBooking inserts; the columns it does not
\* name are null
PaymentFor(booking_id, status) ==
    [booking_id |-> booking_id, amount |-> PaymentAmount, method |-> "banking",
     status |-> status, transaction_code |-> NULL, payment_date |-> NULL]

\* no call of createBooking is in progress
NoCreate == [pc |-> "idle", dto |-> NULL, id |-> 0, outcome |-> "none"]

\* no call of getBookingById is in progress
NoGet == [pc |-> "idle", bookingId |-> NULL, booking |-> NULL, outcome |-> "none",
          body |-> NULL]

\* no call of handleWebhook is in progress
NoHook ==
    [pc |-> "idle", transferType |-> "none", bookingId |-> NULL, paidAmount |-> 0,
     referenceCode |-> NULL, booking |-> NULL, payment |-> NULL, errors |-> {},
     reply |-> NULL]

\* the booking side at rest
LifeAtRest == clock = 0 /\ createCall = NoCreate /\ getCall = NoGet /\ hookCall = NoHook

\* the payments of a table of bookings: one for each, paid when the booking is
PaymentsOf(table) ==
    [i \in 1..Len(table) |->
        PaymentFor(i, IF table[i].status = "paid" THEN "paid" ELSE "pending")]

-----------------------------------------------------------------------------
(* Initial contents of the data store.  The store is drawn from three        *)
(* bounded families of database contents; each varies in full the tables     *)
(* one part of the handler reads and holds the other tables to a few         *)
(* contents under which every kind of request is answered.                   *)

Row(doctor_id, date, shift, max_patients, is_available) ==
    [doctor_id |-> doctor_id, date |-> date, start_time |-> shift[1],
     end_time |-> shift[2], max_patients |-> max_patients,
     is_available |-> is_available]

FullShift == <<<<7, 0, 0>>, <<8, 0, 0>>>>

\* both doctors work at clinic c1 and perform service s1; doc1 performs s2 as well
BothEligible ==
    /\ doctors = {[id |-> d, clinic_id |-> "c1", is_available |-> TRUE] : d \in DoctorIds}
    /\ doctor_services = {[doctor_id |-> d, service_id |-> "s1"] : d \in DoctorIds}
                            \cup {[doctor_id |-> "doc1", service_id |-> "s2"]}

\* the shifts of one day vary: their windows, their capacities, their order
InitShifts ==
    /\ services \in {{[id |-> "s1", duration_minutes |-> d],
                      [id |-> "s2", duration_minutes |-> Some(20)]} : d \in DurationValues}
    /\ BothEligible
    /\ doctor_schedules \in
          SeqsUpTo({r \in ScheduleRow : r.date = 1 /\ r.is_available}, MaxSchedules)
    /\ bookings \in
          SeqsUpTo({b \in BookingRow : /\ b.clinic_id = "c1" /\ b.service_id = "s1"
                                       /\ b.booking_time.date = 1 /\ b.status = "pending"},
                   MaxBookings)

\* the eligibility of doctors and of schedule rows varies, and the existence of s2
InitEligibility ==
    /\ services \in {{[id |-> "s1", duration_minutes |-> NULL]} \cup t :
                        t \in SUBSET {[id |-> "s2", duration_minutes |-> Some(20)]}}
    /\ doctors \in {{[id |-> "doc1", clinic_id |-> "c1", is_available |-> TRUE], d2} :
                        d2 \in {d \in DoctorRow : d.id = "doc2"}}
    /\ doctor_services \in
          {{[doctor_id |-> "doc1", service_id |-> "s1"]} \cup t :
              t \in SUBSET {l \in DoctorServiceRow : l.doctor_id = "doc2"}}
    /\ doctor_schedules \in
          SeqsUpTo({Row(d, dt, FullShift, Some(1), a) :
                        d \in DoctorIds, dt \in Dates, a \in BOOLEAN}, MaxSchedules)
    /\ bookings \in
          {<<>>, <<[clinic_id |-> "c1", service_id |-> "s1",
                    booking_time |-> [date |-> 1, time |-> <<7, 0, 0>>],
                    status |-> "pending", created_at |-> 0]>>}

\* the bookings vary: their clinic, service, date, time of day and status
InitBookings ==
    /\ services = {[id |-> "s1", duration_minutes |-> NULL],
                   [id |-> "s2", duration_minutes |-> Some(20)]}
    /\ BothEligible
    /\ doctor_schedules = <<Row("doc1", 1, FullShift, Some(2), TRUE)>>
    /\ bookings \in SeqsUpTo(BookingRow, MaxBookings)

Init ==
    /\ response = NoResponse
    /\ call = NoCall
    /\ trail = <<>>
    /\ LifeAtRest
    /\ \/ InitShifts
       \/ InitEligibility
       \/ InitBookings
    /\ payments = PaymentsOf(bookings)

-----------------------------------------------------------------------------
(* Requests *)

Idle == response.op = "none"

\* GET api/available-slots: a request is answered from the store as it stands.
\* The service object holds the data-layer client and nothing else, so a
\* behaviour is one request put to one store.
GetAvailableSlots ==
    /\ Idle
    /\ \E req \in Request :
        LET r == getAvailableSlots(Db, req.clinic_id, req.service_id, req.date, req.fail)
        IN  /\ response' = [op |-> "getAvailableSlots", req |-> req,
                            outcome |-> r.outcome, body |-> r.body]
            /\ trail' = <<Db>>
            /\ UNCHANGED <<store, call, life>>

Next == GetAvailableSlots

Spec == Init /\ [][Next]_vars

-----------------------------------------------------------------------------
(* One call of getAvailableSlots, read by read.  Every await of the method   *)
(* is a step of its own, so that writes of other requests fall between two   *)
(* reads.                                                                    *)

\* faulty variant: only clinic_id is checked
ParamsMissing_ClinicOnly(req) == req.clinic_id = Missing

\* !clinic_id || !service_id || !date
ParamsMissing(req) ==
    req.clinic_id = Missing \/ req.service_id = Missing \/ req.date = Missing

\* the data layer answers the read of table with an error
ReadFails(table, fail) == fail = table

\* the method returns or throws
Finish(c, outcome, body) == [c EXCEPT !.pc = "done", !.outcome = outcome, !.body = body]

Issue(c, table) == [c EXCEPT !.issued = Append(@, table)]

\* the parameter check, before the first read
afterParams(c) ==
    IF ParamsMissing(c.req) THEN Finish(c, "BadRequest", <<>>)
    ELSE [c EXCEPT !.pc = "services"]

\* faulty variant: an error of the read is thrown on as a server error
afterService_ThrowsError(c, service) ==
    IF service.error THEN Finish(c, "Error", <<>>)
    ELSE IF service.data = NULL THEN Finish(c, "NotFound", <<>>)
    ELSE [c EXCEPT !.pc = "doctors",
                   !.duration = Some(Coalesce(service.data[1].duration_minutes,
                                              DefaultDuration))]

\* if (serviceErr || !service) throw NotFound;  duration = duration_minutes ?? 30
afterService(c, service) ==
    IF service.error \/ service.data = NULL THEN Finish(c, "NotFound", <<>>)
    ELSE [c EXCEPT !.pc = "doctors",
                   !.duration = Some(Coalesce(service.data[1].duration_minutes,
                                              DefaultDuration))]

\* faulty variant: the error of the read is not looked at, data is null
afterDoctors_IgnoresError(c, docs, docErr) ==
    IF docErr \/ docs = {} THEN Finish(c, "ok", <<>>)
    ELSE [c EXCEPT !.pc = "doctor_schedules", !.doctorIds = {d.id : d \in docs}]

\* if (docErr) throw Error;  if (!doctors?.length) return []
afterDoctors(c, docs, docErr) ==
    IF docErr THEN Finish(c, "Error", <<>>)
    ELSE IF docs = {} THEN Finish(c, "ok", <<>>)
    ELSE [c EXCEPT !.pc = "doctor_schedules", !.doctorIds = {d.id : d \in docs}]

\* faulty variant: the error of the read is not looked at, data is null
afterSchedules_IgnoresError(c, rows, schErr) ==
    IF schErr \/ rows = <<>> THEN Finish(c, "ok", <<>>)
    ELSE [c EXCEPT !.pc = "bookings", !.schedules = rows]

\* if (schErr) throw Error;  if (!schedules?.length) return []
afterSchedules(c, rows, schErr) ==
    IF schErr THEN Finish(c, "Error", <<>>)
    ELSE IF rows = <<>> THEN Finish(c, "ok", <<>>)
    ELSE [c EXCEPT !.pc = "bookings", !.schedules = rows]

\* if (bookErr) throw Error;  then both indexes and the result, without a
\* further await; a walk that never ends keeps the method in its loop
afterBookings(c, rows, bookErr) ==
    IF bookErr THEN Finish(c, "Error", <<>>)
    ELSE IF \E i \in 1..Len(c.schedules) : WalkDiverges(c.schedules[i], c.duration[1])
    THEN [c EXCEPT !.pc = "walking", !.outcome = "diverges"]
    ELSE Finish(c, "ok", computeSlots(c.schedules, rows, c.duration[1]))

\* AvailableSlotsController.getAvailableSlots: an HttpException keeps its
\* status, any other exception becomes 500
httpStatus(outcome) ==
    CASE outcome = "ok" -> 200
      [] outcome = "BadRequest" -> 400
      [] outcome = "NotFound" -> 404
      [] OTHER -> 500

\* a date parameter that is no calendar date: no row carries it
NotADate == 0

\* the query of a request: each parameter absent, or any string
CallRequest ==
    [clinic_id : {Missing} \cup {Some(c) : c \in ClinicIds},
     service_id : {Missing} \cup {Some(s) : s \in ServiceIds},
     date : {Missing} \cup {Some(d) : d \in Dates \cup {NotADate}},
     fail : FailChoices]

\* the request arrives and its parameters are checked
Receive ==
    /\ call.pc = "idle" \/ (call.pc = "done" /\ Len(trail) = 1)
    /\ \E req \in CallRequest : call' = afterParams([NoCall EXCEPT !.req = req])
    /\ trail' = <<Db>>
    /\ UNCHANGED <<store, response, life>>

SelectService ==
    /\ call.pc = "services"
    /\ call' = afterService(Issue(call, "services"),
                            ReadService(services, call.req.service_id[1], call.req.fail))
    /\ UNCHANGED <<store, response, trail, life>>

SelectDoctors ==
    /\ call.pc = "doctors"
    /\ call' = afterDoctors(Issue(call, "doctors"),
                            ReadDoctors(doctors, doctor_services, call.req.clinic_id[1],
                                        call.req.service_id[1]),
                            ReadFails("doctors", call.req.fail))
    /\ UNCHANGED <<store, response, trail, life>>

SelectSchedules ==
    /\ call.pc = "doctor_schedules"
    /\ call' = afterSchedules(Issue(call, "doctor_schedules"),
                              ReadSchedules(doctor_schedules, call.req.date[1],
                                            call.doctorIds),
                              ReadFails("doctor_schedules", call.req.fail))
    /\ UNCHANGED <<store, response, trail, life>>

\* faulty variant: the pending bookings read are marked expired on the way
SelectBookings_ExpiresPending ==
    /\ call.pc = "bookings"
    /\ call' = afterBookings(Issue(call, "bookings"),
                             ReadBookings(bookings, call.req.clinic_id[1],
                                          call.req.service_id[1], call.req.date[1]),
                             ReadFails("bookings", call.req.fail))
    /\ bookings' = [i \in 1..Len(bookings) |->
                        IF bookings[i].status = "pending"
                        THEN [bookings[i] EXCEPT !.status = "expired"]
                        ELSE bookings[i]]
    /\ UNCHANGED <<services, doctors, doctor_services, doctor_schedules, payments,
                   response, trail, life>>

SelectBookings ==
    /\ call.pc = "bookings"
    /\ call' = afterBookings(Issue(call, "bookings"),
                             ReadBookings(bookings, call.req.clinic_id[1],
                                          call.req.service_id[1], call.req.date[1]),
                             ReadFails("bookings", call.req.fail))
    /\ UNCHANGED <<store, response, trail, life>>

-----------------------------------------------------------------------------
(* The writers of the store *)

\* writes followed in one behaviour
MaxWrites == 2

\* The writes before a request give another initial store and the writes
\* after its answer is out cannot reach it: the writes followed are those
\* from the receipt of the request on.
WritesFollowed == trail # <<>> /\ Len(trail) <= MaxWrites /\ call.pc # "done"

\* the body of POST api/bookings, as far as the tables here hold it
CreateBookingDto ==
    [clinic : {"c1"}, service : {"s1"},
     booking_time : {[date |-> 1, time |-> t] : t \in {<<7, 0, 0>>, <<7, 30, 0>>}}]

\* BookingsService.createBooking: the booking is inserted as pending, then
\* its payment; when the second insert fails the booking stays (failAt =
\* "payment").  A failure of the first insert changes no table.
CreateBooking ==
    /\ WritesFollowed
    /\ \E dto \in CreateBookingDto, failAt \in {"none", "payment"} :
        /\ bookings' = Append(bookings,
                              [clinic_id |-> dto.clinic, service_id |-> dto.service,
                               booking_time |-> dto.booking_time, status |-> "pending",
                               created_at |-> clock])
        /\ payments' = IF failAt = "payment" THEN payments
                       ELSE Append(payments, PaymentFor(Len(bookings) + 1, "pending"))
    /\ UNCHANGED <<services, doctors, doctor_services, doctor_schedules, response, call, life>>
    /\ trail' = Append(trail, Db')

\* schedule management: a shift is withdrawn
WithdrawShift ==
    /\ WritesFollowed
    /\ \E i \in DOMAIN doctor_schedules :
        /\ doctor_schedules[i].is_available
        /\ doctor_schedules' = [doctor_schedules EXCEPT ![i].is_available = FALSE]
    /\ UNCHANGED <<services, doctors, doctor_services, bookings, payments, response, call,
                   life>>
    /\ trail' = Append(trail, Db')

\* staff management: a doctor stops taking patients
RetireDoctor ==
    /\ WritesFollowed
    /\ \E d \in doctors :
        /\ d.is_available
        /\ doctors' = (doctors \ {d}) \cup {[d EXCEPT !.is_available = FALSE]}
    /\ UNCHANGED <<services, doctor_services, doctor_schedules, bookings, payments,
                   response, call, life>>
    /\ trail' = Append(trail, Db')

\* the stores a call runs on: s2 may be unknown, one shift or two, a booking or none
InitCall ==
    /\ response = NoResponse
    /\ call = NoCall
    /\ trail = <<>>
    /\ LifeAtRest
    /\ services \in {{[id |-> "s1", duration_minutes |-> NULL]} \cup t :
                        t \in SUBSET {[id |-> "s2", duration_minutes |-> Some(20)]}}
    /\ BothEligible
    /\ doctor_schedules \in {<<Row("doc1", 1, FullShift, Some(1), TRUE)>>,
                              <<Row("doc1", 1, FullShift, Some(1), TRUE),
                                Row("doc2", 1, FullShift, Some(2), TRUE)>>}
    /\ bookings \in {<<>>, <<[clinic_id |-> "c1", service_id |-> "s1",
                              booking_time |-> [date |-> 1, time |-> <<7, 0, 0>>],
                              status |-> "pending", created_at |-> 0]>>}
    /\ payments = PaymentsOf(bookings)

NextCall ==
    \/ Receive
    \/ SelectService
    \/ SelectDoctors
    \/ SelectSchedules
    \/ SelectBookings
    \/ CreateBooking
    \/ WithdrawShift
    \/ RetireDoctor

SpecCall == InitCall /\ [][NextCall]_vars

-----------------------------------------------------------------------------
(* A request answered, then bookings created *)

\* the stores: one or two full shifts of one or two patients a slot, and
\* a booking at 07:00 of any status, or none
InitBook ==
    /\ response = NoResponse
    /\ call = NoCall
    /\ trail = <<>>
    /\ LifeAtRest
    /\ services = {[id |-> "s1", duration_minutes |-> NULL],
                   [id |-> "s2", duration_minutes |-> Some(20)]}
    /\ BothEligible
    /\ doctor_schedules \in
          SeqsUpTo({Row(d, 1, FullShift, m, TRUE) :
                        d \in DoctorIds, m \in {Some(1), Some(2)}}, MaxSchedules) \ {<<>>}
    /\ bookings \in
          {<<>>} \cup {<<[clinic_id |-> "c1", service_id |-> "s1",
                          booking_time |-> [date |-> 1, time |-> <<7, 0, 0>>],
                          status |-> st, created_at |-> 0]>> : st \in BookingStatuses}
    /\ payments = PaymentsOf(bookings)

NextBook ==
    \/ GetAvailableSlots
    \/ CreateBooking

SpecBook == InitBook /\ [][NextBook]_vars

-----------------------------------------------------------------------------
(* Texts.  A string is the sequence of its characters, so that the regular   *)
(* expression of handleWebhook and the slices that rebuild a UUID are        *)
(* computed character by character.                                          *)

Lower == <<"a", "b", "c", "d", "e", "f", "g", "h", "i", "j", "k", "l", "m",
           "n", "o", "p", "q", "r", "s", "t", "u", "v", "w", "x", "y", "z">>

Upper == <<"A", "B", "C", "D", "E", "F", "G", "H", "I", "J", "K", "L", "M",
           "N", "O", "P", "Q", "R", "S", "T", "U", "V", "W", "X", "Y", "Z">>

Digit == <<"0", "1", "2", "3", "4", "5", "6", "7", "8", "9">>

Range(seq) == {seq[i] : i \in DOMAIN seq}

ToUpper(c) == IF c \in Range(Lower) THEN Upper[CHOOSE i \in DOMAIN Lower : Lower[i] = c] ELSE c

\* the class [\s._-]
SeparatorChars == {" ", "\t", "\n", "\r", ".", "_", "-"}

\* the class [a-zA-Z0-9-]
IdChars == Range(Lower) \cup Range(Upper) \cup Range(Digit) \cup {"-"}

Keyword == <<"D", "A", "T", "L", "I", "C", "H">>

\* String.prototype.slice(from, to) with 0 <= from <= to, positions counted from 0
Slice(text, from, to) ==
    IF from >= Len(text) THEN <<>>
    ELSE SubSeq(text, from + 1, IF to > Len(text) THEN Len(text) ELSE to)

\* the longest run of characters of [a-zA-Z0-9-] that starts at position p
RECURSIVE IdRun(_, _)
IdRun(text, p) ==
    IF p > Len(text) \/ text[p] \notin IdChars THEN <<>>
    ELSE <<text[p]>> \o IdRun(text, p + 1)

\* DATLICH, in either case, stands at position i
KeywordAt(text, i) ==
    /\ i + Len(Keyword) - 1 <= Len(text)
    /\ \A j \in DOMAIN Keyword : ToUpper(text[i + j - 1]) = Keyword[j]

\* the group of /DATLICH[\s._-]?([a-zA-Z0-9-]+)/i for a match that starts at
\* position i: the separator is taken when one follows, and given back when
\* no character of the group follows it
GroupAt(text, i) ==
    LET p == i + Len(Keyword)
        sep == p <= Len(text) /\ text[p] \in SeparatorChars
    IN  IF sep /\ IdRun(text, p + 1) # <<>> THEN IdRun(text, p + 1) ELSE IdRun(text, p)

\* rawContent.match(/DATLICH[\s._-]?([a-zA-Z0-9-]+)/i): match[1] of the
\* leftmost match, null when there is none
MatchBookingId(text) ==
    LET at == {i \in DOMAIN text : KeywordAt(text, i) /\ GroupAt(text, i) # <<>>}
    IN  IF at = {} THEN NULL
        ELSE Some(GroupAt(text, CHOOSE i \in at : \A j \in at : i <= j))

\* length of a UUID without its dashes
StrippedLength == 32

\* a UUID stripped of its dashes gets them back after 8, 12, 16 and 20 characters
FormatBookingId(bookingId) ==
    IF Len(bookingId) = StrippedLength /\ "-" \notin Range(bookingId)
    THEN Slice(bookingId, 0, 8) \o <<"-">> \o Slice(bookingId, 8, 12) \o <<"-">>
            \o Slice(bookingId, 12, 16) \o <<"-">> \o Slice(bookingId, 16, 20) \o <<"-">>
            \o Slice(bookingId, 20, Len(bookingId))
    ELSE bookingId

-----------------------------------------------------------------------------
(* The booking side: createBooking, getBookingById and the payment webhook,  *)
(* each await of a method a step of its own                                  *)

\* bookings created in one behaviour
MaxLifeBookings == 2

\* the clock advances in steps of five minutes, up to ten
TickMinutes == 5

MaxClock == 10

\* minutes after which a pending booking is expired
ExpiryMinutes == 5

RECURSIVE Repeat(_, _)
Repeat(c, n) == IF n = 0 THEN <<>> ELSE <<c>> \o Repeat(c, n - 1)

\* the ids the data layer gives the rows of bookings: UUIDs
BookingUuids ==
    [k \in 1..9 |->
        Repeat("0", 7) \o <<Digit[k + 1]>> \o <<"-">> \o Repeat("a", 4) \o <<"-">>
            \o Repeat("4", 4) \o <<"-">> \o Repeat("8", 4) \o <<"-">> \o Repeat("f", 12)]

\* the id of the k-th row of bookings
BookingUuid(k) == BookingUuids[k]

\* the UUID as the transfer note carries it, without its dashes
Stripped(uuid) == SelectSeq(uuid, LAMBDA c : c # "-")

\* faulty variant: a booking is expired from its fifth minute on
isExpired_AtFive(createdAt, minutes) == clock - createdAt >= minutes

\* Date.now() - created > minutes * 60 * 1000
isExpired(createdAt, minutes) == clock - createdAt > minutes

\* findUnique({ where: { id } }) and .eq('id', bookingId).single(): the
\* positions of the rows of bookings with that id
BookingsWithId(table, bookingId) == {k \in DOMAIN table : BookingUuid(k) = bookingId}

\* the payments of booking k with the status asked for, by position
PaymentsWith(table, k, status) ==
    {j \in DOMAIN table : table[j].booking_id = k /\ table[j].status = status}

PaymentsOfBooking(table, k) == {j \in DOMAIN table : table[j].booking_id = k}

\* the clock of the server moves on
Tick ==
    /\ clock < MaxClock
    /\ clock' = clock + TickMinutes
    /\ UNCHANGED <<store, response, call, trail, createCall, getCall, hookCall>>

\* the bookings asked for on this side: the first slot of the shift
WalkInDto == {dto \in CreateBookingDto : dto.booking_time.time = <<7, 0, 0>>}

\* createBooking, first await: the booking is inserted with status pending
\* and the data layer stamps created_at; when the insert fails (err) the
\* method throws BadRequest
InsertBooking ==
    /\ createCall.pc \in {"idle", "done"}
    /\ Len(bookings) < MaxLifeBookings
    /\ \E dto \in WalkInDto, err \in BOOLEAN :
        LET c == [NoCreate EXCEPT !.dto = Some(dto)]
        IN  IF err
            THEN /\ createCall' = [c EXCEPT !.pc = "done", !.outcome = "BadRequest"]
                 /\ bookings' = bookings
            ELSE /\ bookings' = Append(bookings,
                                   [clinic_id |-> dto.clinic, service_id |-> dto.service,
                                    booking_time |-> dto.booking_time,
                                    status |-> "pending", created_at |-> clock])
                 /\ createCall' = [c EXCEPT !.pc = "payment", !.id = Len(bookings) + 1]
    /\ UNCHANGED <<services, doctors, doctor_services, doctor_schedules, payments,
                   response, call, trail, clock, getCall, hookCall>>

\* createBooking, second await: the payment of 2000 is inserted as pending
\* and { bookingId } is returned; when the insert fails (err) the method
\* throws BadRequest and the booking stays
InsertPayment ==
    /\ createCall.pc = "payment"
    /\ \E err \in BOOLEAN :
        IF err
        THEN /\ createCall' = [createCall EXCEPT !.pc = "done", !.outcome = "BadRequest"]
             /\ payments' = payments
        ELSE /\ payments' = Append(payments, PaymentFor(createCall.id, "pending"))
             /\ createCall' = [createCall EXCEPT !.pc = "done", !.outcome = "ok"]
    /\ UNCHANGED <<services, doctors, doctor_services, doctor_schedules, bookings,
                   response, call, trail, clock, getCall, hookCall>>

\* the ids asked for: none, those of the first rows of bookings, and so one
\* that no row has yet
BookingIdParams == {NULL} \cup {Some(BookingUuid(k)) : k \in 1..MaxLifeBookings}

\* BookingResponse
BookingBody(k, status, amount, created_at) ==
    Some([id |-> BookingUuid(k), status |-> status, amount |-> amount,
          created_at |-> created_at])

\* booking.payment?.amount ?? 2000
AmountOf(table, k) ==
    LET own == PaymentsOfBooking(table, k)
    IN  IF own = {} THEN PaymentAmount ELSE table[CHOOSE j \in own : TRUE].amount

\* getBookingById up to its update: the id is checked, the booking is read
\* (err: the read fails), and unless it is pending and older than five
\* minutes it is returned as it was read
FindBooking ==
    /\ getCall.pc \in {"idle", "done"}
    /\ \E bookingId \in BookingIdParams, err \in BOOLEAN :
        LET g == [NoGet EXCEPT !.bookingId = bookingId]
            found == BookingsWithId(bookings, bookingId[1])
            k == CHOOSE x \in found : TRUE
        IN  getCall' =
              IF bookingId = NULL THEN [g EXCEPT !.pc = "done", !.outcome = "BadRequest"]
              ELSE IF err THEN [g EXCEPT !.pc = "done", !.outcome = "Error"]
              ELSE IF found = {} THEN [g EXCEPT !.pc = "done", !.outcome = "NotFound"]
              ELSE IF bookings[k].status = "pending"
                      /\ isExpired(bookings[k].created_at, ExpiryMinutes)
              THEN [g EXCEPT !.pc = "update",
                             !.booking = Some([id |-> k, status |-> bookings[k].status,
                                               amount |-> AmountOf(payments, k),
                                               created_at |-> bookings[k].created_at])]
              ELSE [g EXCEPT !.pc = "done", !.outcome = "ok",
                             !.body = BookingBody(k, bookings[k].status,
                                                  AmountOf(payments, k),
                                                  bookings[k].created_at)]
    /\ UNCHANGED <<store, response, call, trail, clock, createCall, hookCall>>

\* getBookingById, the update: the row with the id gets status expired,
\* whatever its status is by now, and the booking is returned as expired;
\* when the update fails (err) the method throws
ExpireBooking ==
    /\ getCall.pc = "update"
    /\ \E err \in BOOLEAN :
        LET b == getCall.booking[1]
        IN  IF err
            THEN /\ getCall' = [getCall EXCEPT !.pc = "done", !.outcome = "Error"]
                 /\ bookings' = bookings
            ELSE /\ bookings' = [bookings EXCEPT ![b.id].status = "expired"]
                 /\ getCall' = [getCall EXCEPT !.pc = "done", !.outcome = "ok",
                                   !.body = BookingBody(b.id, "expired", b.amount,
                                                        b.created_at)]
    /\ UNCHANGED <<services, doctors, doctor_services, doctor_schedules, payments,
                   response, call, trail, clock, createCall, hookCall>>

\* the note of the transfer that pays booking k: DATLICH and the UUID
\* without its dashes
NoteOf(k) == Keyword \o Stripped(BookingUuid(k))

NoKeyword == <<"h", "e", "l", "l", "o">>

\* transfer notes: the note of the first booking; datlich-, in lower case,
\* and its UUID with the dashes, within the text of a bank; a note without
\* the keyword; the keyword and nothing after it; the keyword and the UUID
\* of no booking
WebhookTexts ==
    {NoteOf(1),
     <<"C", "T", " ", "d", "a", "t", "l", "i", "c", "h", "-">> \o BookingUuid(1)
         \o <<" ", "F", "T">>,
     NoKeyword,
     Keyword \o <<".">>,
     Keyword \o <<" ">> \o BookingUuid(9)}

Transfer(transferType, content, description, transferAmount, referenceCode) ==
    [transferType |-> transferType, content |-> content, description |-> description,
     transferAmount |-> transferAmount, referenceCode |-> referenceCode]

\* SepayWebhookPayload: every note as the content of an incoming transfer of
\* 2000; the note in description, with no content and beside a content
\* without the keyword; no note at all; an outgoing transfer; no amount, too
\* small an amount, and a larger amount under another reference code
WebhookPayloads ==
    {Transfer("in", Some(t), NULL, Some(PaymentAmount), Some("FT1")) : t \in WebhookTexts}
        \cup {Transfer("in", NULL, Some(NoteOf(1)), Some(PaymentAmount), Some("FT1")),
              Transfer("in", Some(NoKeyword), Some(NoteOf(1)), Some(PaymentAmount),
                       Some("FT1")),
              Transfer("in", NULL, NULL, Some(PaymentAmount), Some("FT1")),
              Transfer("out", Some(NoteOf(1)), NULL, Some(PaymentAmount), Some("FT1")),
              Transfer("in", Some(NoteOf(1)), NULL, NULL, Some("FT1")),
              Transfer("in", Some(NoteOf(1)), NULL, Some(PaymentAmount - 1), Some("FT1")),
              Transfer("in", Some(NoteOf(1)), NULL, Some(PaymentAmount + 1), Some("FT2"))}

\* what handleWebhook returns: { ok: true }, { ok: true, alreadyPaid: true }
\* or { success: true }
Ok == [ok |-> Some(TRUE), alreadyPaid |-> NULL, success |-> NULL]

AlreadyPaid == [ok |-> Some(TRUE), alreadyPaid |-> Some(TRUE), success |-> NULL]

Success == [ok |-> NULL, alreadyPaid |-> NULL, success |-> Some(TRUE)]

Returns(h, reply) == [h EXCEPT !.pc = "done", !.reply = Some(reply)]

\* the data layer answers operation with an error when err holds; errors
\* keeps the operations of the call that it answered so
Answers(h, operation, err) == IF err THEN [h EXCEPT !.errors = @ \cup {operation}] ELSE h

\* payload?.content ?? payload?.description ?? ''
rawContent(payload) ==
    IF payload.content # NULL THEN payload.content[1]
    ELSE IF payload.description # NULL THEN payload.description[1]
    ELSE <<>>

\* handleWebhook before its first await: a transfer that is not incoming and
\* a note without a booking id are answered at once; else the booking id is
\* put into the form of a UUID and the amount is read, 0 when there is none
Parsed(payload) ==
    LET h == [NoHook EXCEPT !.transferType = payload.transferType,
                            !.referenceCode = payload.referenceCode]
        match == MatchBookingId(rawContent(payload))
    IN  IF payload.transferType # "in" THEN Returns(h, Ok)
        ELSE IF match = NULL THEN Returns(h, Ok)
        ELSE [h EXCEPT !.pc = "getBooking",
                       !.bookingId = Some(FormatBookingId(match[1])),
                       !.paidAmount = Coalesce(payload.transferAmount, 0)]

\* the calls of handleWebhook as they stand at the first await
WebhookArrivals == {Parsed(payload) : payload \in WebhookPayloads}

\* faulty variant: a booking that is paid already is treated like any other
WebhookGetBooking_NoPaidCheck ==
    /\ hookCall.pc \in {"idle", "done"}
    /\ \E h \in WebhookArrivals, err \in BOOLEAN :
        LET found == BookingsWithId(bookings, h.bookingId[1])
            k == CHOOSE x \in found : TRUE
        IN  hookCall' =
              IF h.pc = "done" THEN h
              ELSE IF err \/ Cardinality(found) # 1
              THEN Returns(Answers(h, "getBooking", err), Ok)
              ELSE [h EXCEPT !.pc = "getPayment",
                             !.booking = Some([id |-> k, status |-> bookings[k].status])]
    /\ UNCHANGED <<store, response, call, trail, clock, createCall, getCall>>

\* handleWebhook up to the payment read: the booking is read by its id (err:
\* the read fails); an unknown booking is dropped and a paid one answered
\* with alreadyPaid
WebhookGetBooking ==
    /\ hookCall.pc \in {"idle", "done"}
    /\ \E h \in WebhookArrivals, err \in BOOLEAN :
        LET found == BookingsWithId(bookings, h.bookingId[1])
            k == CHOOSE x \in found : TRUE
        IN  hookCall' =
              IF h.pc = "done" THEN h
              ELSE IF err \/ Cardinality(found) # 1
              THEN Returns(Answers(h, "getBooking", err), Ok)
              ELSE IF bookings[k].status = "paid" THEN Returns(h, AlreadyPaid)
              ELSE [h EXCEPT !.pc = "getPayment",
                             !.booking = Some([id |-> k, status |-> bookings[k].status])]
    /\ UNCHANGED <<store, response, call, trail, clock, createCall, getCall>>

\* faulty variant: the amount transferred is not compared with the payment
WebhookGetPayment_AnyAmount ==
    /\ hookCall.pc = "getPayment"
    /\ \E err \in BOOLEAN :
        LET pending == PaymentsWith(payments, hookCall.booking[1].id, "pending")
            j == CHOOSE x \in pending : TRUE
        IN  hookCall' =
              IF err \/ Cardinality(pending) # 1
              THEN Returns(Answers(hookCall, "getPayment", err), Ok)
              ELSE [hookCall EXCEPT !.pc = "updatePayment",
                        !.payment = Some([id |-> j, amount |-> payments[j].amount,
                                          status |-> payments[j].status])]
    /\ UNCHANGED <<store, response, call, trail, clock, createCall, getCall>>

\* the pending payment of the booking is read with .single() (err: the read
\* fails), and the amount transferred is compared with its amount
WebhookGetPayment ==
    /\ hookCall.pc = "getPayment"
    /\ \E err \in BOOLEAN :
        LET pending == PaymentsWith(payments, hookCall.booking[1].id, "pending")
            j == CHOOSE x \in pending : TRUE
        IN  hookCall' =
              IF err \/ Cardinality(pending) # 1
              THEN Returns(Answers(hookCall, "getPayment", err), Ok)
              ELSE IF hookCall.paidAmount < payments[j].amount THEN Returns(hookCall, Ok)
              ELSE [hookCall EXCEPT !.pc = "updatePayment",
                        !.payment = Some([id |-> j, amount |-> payments[j].amount,
                                          status |-> payments[j].status])]
    /\ UNCHANGED <<store, response, call, trail, clock, createCall, getCall>>

\* the payment is set to paid by its id; an error of the update (err) is
\* logged and the method goes on
WebhookUpdatePayment ==
    /\ hookCall.pc = "updatePayment"
    /\ \E err \in BOOLEAN :
        /\ payments' =
              IF err THEN payments
              ELSE [payments EXCEPT ![hookCall.payment[1].id] =
                        [@ EXCEPT !.status = "paid", !.method = "sepay",
                                  !.transaction_code = hookCall.referenceCode,
                                  !.payment_date = Some(clock)]]
        /\ hookCall' = [Answers(hookCall, "updatePayment", err) EXCEPT
                            !.pc = "updateBooking"]
    /\ UNCHANGED <<services, doctors, doctor_services, doctor_schedules, bookings,
                   response, call, trail, clock, createCall, getCall>>

\* the booking is set to paid by its id; an error of the update (err) is
\* logged and { success: true } is returned
WebhookUpdateBooking ==
    /\ hookCall.pc = "updateBooking"
    /\ \E err \in BOOLEAN :
        /\ bookings' =
              IF err THEN bookings
              ELSE [bookings EXCEPT ![hookCall.booking[1].id].status = "paid"]
        /\ hookCall' = Returns(Answers(hookCall, "updateBooking", err), Success)
    /\ UNCHANGED <<services, doctors, doctor_services, doctor_schedules, payments,
                   response, call, trail, clock, createCall, getCall>>

\* one shift of doc1 with room for one patient at 07:00 and at 07:30, and
\* one pending booking at 07:00 with its payment
InitLife ==
    /\ response = NoResponse
    /\ call = NoCall
    /\ trail = <<>>
    /\ LifeAtRest
    /\ services = {[id |-> "s1", duration_minutes |-> NULL]}
    /\ BothEligible
    /\ doctor_schedules = <<Row("doc1", 1, FullShift, Some(1), TRUE)>>
    /\ bookings = <<[clinic_id |-> "c1", service_id |-> "s1",
                     booking_time |-> [date |-> 1, time |-> <<7, 0, 0>>],
                     status |-> "pending", created_at |-> 0]>>
    /\ payments = PaymentsOf(bookings)

NextLife ==
    \/ Tick
    \/ InsertBooking
    \/ InsertPayment
    \/ FindBooking
    \/ ExpireBooking
    \/ WebhookGetBooking
    \/ WebhookGetPayment
    \/ WebhookUpdatePayment
    \/ WebhookUpdateBooking

SpecLife == InitLife /\ [][NextLife]_vars

-----------------------------------------------------------------------------
(* Pending bookings grow old, are polled, and a request for slots is answered *)

\* one shift of doc1 with room for one or two patients a slot, and one or
\* two pending bookings at 07:00, created at minute 0, with their payments
InitExpiry ==
    /\ response = NoResponse
    /\ call = NoCall
    /\ trail = <<>>
    /\ LifeAtRest
    /\ services = {[id |-> "s1", duration_minutes |-> NULL]}
    /\ BothEligible
    /\ doctor_schedules \in {<<Row("doc1", 1, FullShift, Some(m), TRUE)>> : m \in {1, 2}}
    /\ bookings \in SeqsUpTo({[clinic_id |-> "c1", service_id |-> "s1",
                               booking_time |-> [date |-> 1, time |-> <<7, 0, 0>>],
                               status |-> "pending", created_at |-> 0]},
                             MaxLifeBookings) \ {<<>>}
    /\ payments = PaymentsOf(bookings)

NextExpiry ==
    \/ Tick
    \/ FindBooking
    \/ ExpireBooking
    \/ GetAvailableSlots

SpecExpiry == InitExpiry /\ [][NextExpiry]_vars

-----------------------------------------------------------------------------
(* What the claims speak of, stated over the store and the request answered  *)

Answered == response.op = "getAvailableSlots"

Returned == Answered /\ response.outcome = "ok"

Slots == response.body

QClinic == response.req.clinic_id[1]

QService == response.req.service_id[1]

QDate == response.req.date[1]

\* minutes since midnight of a label or of a time of day
minutesOf(t) == 60 * t[1] + t[2]

ServiceKnown == \E s \in services : s.id = QService

\* the step of the grid: the service's duration_minutes, 30 when it is unset
StepOfQ ==
    LET s == CHOOSE r \in services : r.id = QService
    IN  IF s.duration_minutes = NULL THEN 30 ELSE s.duration_minutes[1]

EligibleDoctorIds ==
    {d.id : d \in {x \in doctors :
        /\ x.clinic_id = QClinic
        /\ x.is_available
        /\ [doctor_id |-> x.id, service_id |-> QService] \in doctor_services}}

\* the shifts that count for the request, by their position in the table
EligibleShifts ==
    {i \in DOMAIN doctor_schedules :
        /\ doctor_schedules[i].date = QDate
        /\ doctor_schedules[i].is_available
        /\ doctor_schedules[i].doctor_id \in EligibleDoctorIds}

StartOf(i) == minutesOf(doctor_schedules[i].start_time)

EndOf(i) == minutesOf(doctor_schedules[i].end_time)

PatientsOf(i) ==
    IF doctor_schedules[i].max_patients = NULL THEN 0
    ELSE doctor_schedules[i].max_patients[1]

\* shift i generates the slot that starts at minute t: t = start + k * step for
\* some k >= 0, and the whole slot fits, t + step <= end
Emits(i, t) ==
    /\ t + StepOfQ <= EndOf(i)
    /\ IF StepOfQ > 0
       THEN t >= StartOf(i) /\ (t - StartOf(i)) % StepOfQ = 0
       ELSE t = StartOf(i)

RECURSIVE SumPatients(_)
SumPatients(shifts) ==
    IF shifts = {} THEN 0
    ELSE LET i == CHOOSE x \in shifts : TRUE
         IN  PatientsOf(i) + SumPatients(shifts \ {i})

PooledCapacity(t) == SumPatients({i \in EligibleShifts : Emits(i, t)})

\* the bookings that count for the request, by their position in the table
ActiveBookings ==
    {j \in DOMAIN bookings :
        /\ bookings[j].clinic_id = QClinic
        /\ bookings[j].service_id = QService
        /\ bookings[j].booking_time.date = QDate
        /\ bookings[j].status \in {"pending", "paid"}}

ActiveAt(t) ==
    Cardinality({j \in ActiveBookings : minutesOf(bookings[j].booking_time.time) = t})

\* the minutes at which some eligible shift generates a slot
GridMinutes ==
    UNION {{t \in StartOf(i)..EndOf(i) : Emits(i, t)} : i \in EligibleShifts}

ReturnedMinutes == {minutesOf(Slots[n].time) : n \in DOMAIN Slots}

-----------------------------------------------------------------------------
(* C1 .. C10: the slots returned *)

\* C1: every slot returned has available = max(capacity - booked, 0) and
\* available > 0; neither a label whose pooled capacity is used up by the
\* active bookings at it nor a label of capacity zero is returned.
C1_AvailablePositive ==
    Returned =>
        \A n \in DOMAIN Slots :
            /\ Slots[n].available = Max(Slots[n].capacity - Slots[n].booked, 0)
            /\ Slots[n].available > 0
            /\ PooledCapacity(minutesOf(Slots[n].time)) > 0
            /\ ActiveAt(minutesOf(Slots[n].time)) < PooledCapacity(minutesOf(Slots[n].time))

\* a slot list is returned although one generated label is fully booked and
\* another has capacity zero
C1_Witness ==
    /\ Returned
    /\ Slots # <<>>
    /\ \E t \in GridMinutes : PooledCapacity(t) > 0 /\ ActiveAt(t) >= PooledCapacity(t)
    /\ \E t \in GridMinutes : PooledCapacity(t) = 0

\* C2: every label returned is generated by an eligible shift of the queried
\* date: t = start + k * duration with k >= 0 and t + duration <= end; a
\* time of day that only bookings name is not returned.
C2_GridBoundary ==
    Returned =>
        \A n \in DOMAIN Slots :
            \E i \in EligibleShifts : Emits(i, minutesOf(Slots[n].time))

\* slots are returned while an active booking sits at a time no shift generates
C2_Witness ==
    /\ Returned
    /\ Slots # <<>>
    /\ \E j \in ActiveBookings :
          minutesOf(bookings[j].booking_time.time) \notin GridMinutes

\* C3: a generated label whose pooled capacity exceeds the number of active
\* bookings at exactly that label is present in the result.
C3_Completeness ==
    Returned =>
        \A t \in GridMinutes :
            PooledCapacity(t) > ActiveAt(t) => t \in ReturnedMinutes

\* a label with one place left is returned next to a fully booked one
C3_Witness ==
    /\ Returned
    /\ \E t \in GridMinutes :
          /\ ActiveAt(t) > 0
          /\ PooledCapacity(t) = ActiveAt(t) + 1
          /\ t \in ReturnedMinutes
    /\ \E t \in GridMinutes : t \notin ReturnedMinutes

\* C4: the capacity of every label returned is the sum of max_patients over
\* the eligible shifts that generate the label, whichever doctor they belong to.
C4_Pooling ==
    Returned =>
        \A n \in DOMAIN Slots :
            Slots[n].capacity = PooledCapacity(minutesOf(Slots[n].time))

\* two shifts of different doctors and of different max_patients pool at one label
C4_Witness ==
    /\ Returned
    /\ \E n \in DOMAIN Slots : \E i, j \in EligibleShifts :
          /\ doctor_schedules[i].doctor_id # doctor_schedules[j].doctor_id
          /\ Emits(i, minutesOf(Slots[n].time))
          /\ Emits(j, minutesOf(Slots[n].time))
          /\ PatientsOf(i) > 0 /\ PatientsOf(j) > PatientsOf(i)
          /\ Slots[n].capacity = PatientsOf(i) + PatientsOf(j)

\* the request answered, put to the store with its bookings table replaced
AnswerWith(table) ==
    getAvailableSlots([Db EXCEPT !.bookings = table], response.req.clinic_id,
                      response.req.service_id, response.req.date, response.req.fail)

\* a booking that lies inside the window of a generated slot, off its label
InsideASlot(b) ==
    \E t \in GridMinutes :
        /\ t < minutesOf(b.booking_time.time)
        /\ minutesOf(b.booking_time.time) < t + StepOfQ

\* a booking that lies inside the window of a returned slot, off its label
InsideAReturnedSlot(b) ==
    \E n \in DOMAIN Slots :
        /\ minutesOf(Slots[n].time) < minutesOf(b.booking_time.time)
        /\ minutesOf(b.booking_time.time) < minutesOf(Slots[n].time) + StepOfQ

\* C5 as stated: booked is the number of active bookings whose HH:MM equals
\* the label, and the bookings inside a returned slot's window but off that
\* slot's label change no slot: without them the same slots are returned.
C5_InsideAnyWindow ==
    Returned =>
        /\ \A n \in DOMAIN Slots : Slots[n].booked = ActiveAt(minutesOf(Slots[n].time))
        /\ Slots = AnswerWith(SelectSeq(bookings, LAMBDA b : ~InsideAReturnedSlot(b))).body

\* a booking inside a slot's window that is at no generated label
OffEveryLabel(b) ==
    InsideASlot(b) /\ minutesOf(b.booking_time.time) \notin GridMinutes

\* C5, amended: booked is the number of active bookings whose HH:MM equals
\* the label; the bookings inside a slot's window that are at the label of
\* no generated slot change no slot: without them the same slots are returned.
C5_ExactLabel ==
    Returned =>
        /\ \A n \in DOMAIN Slots : Slots[n].booked = ActiveAt(minutesOf(Slots[n].time))
        /\ Slots = AnswerWith(SelectSeq(bookings, LAMBDA b : ~OffEveryLabel(b))).body

\* a slot is returned with a booking at its label and an active booking at
\* 07:10, inside the window of the generated slot 07:00
C5_Witness ==
    /\ Returned
    /\ \E n \in DOMAIN Slots : Slots[n].booked > 0
    /\ 420 \in GridMinutes
    /\ \E j \in ActiveBookings :
          bookings[j].booking_time.time = <<7, 10, 0>> /\ OffEveryLabel(bookings[j])

\* a booking of the queried clinic, service and date with status pending or paid
CountsForQ(b) ==
    /\ b.clinic_id = QClinic
    /\ b.service_id = QService
    /\ b.booking_time.date = QDate
    /\ b.status \in {"pending", "paid"}

\* C6: the result depends on the bookings of the queried clinic, service and
\* date with status pending or paid only: the store without every other
\* booking is answered alike.
C6_OnlyMatchingBookings ==
    Answered =>
        /\ response.outcome = AnswerWith(SelectSeq(bookings, CountsForQ)).outcome
        /\ Slots = AnswerWith(SelectSeq(bookings, CountsForQ)).body

\* slots are returned while an expired booking and an active booking of another
\* clinic, service or date sit at the label of a returned slot
C6_Witness ==
    /\ Returned
    /\ \E j1, j2 \in DOMAIN bookings : \E n \in DOMAIN Slots :
          /\ minutesOf(bookings[j1].booking_time.time) = minutesOf(Slots[n].time)
          /\ minutesOf(bookings[j2].booking_time.time) = minutesOf(Slots[n].time)
          /\ bookings[j1].status = "expired"
          /\ CountsForQ([bookings[j1] EXCEPT !.status = "pending"])
          /\ bookings[j2].status \in {"pending", "paid"}
          /\ ~CountsForQ(bookings[j2])
          /\ Slots[n].booked = 0

\* C7: the result is strictly ascending by minutes since midnight, so no two
\* entries share a label, whatever the order of the schedule rows.
C7_StrictlyAscending ==
    Returned =>
        \A n \in 1..(Len(Slots) - 1) :
            minutesOf(Slots[n].time) < minutesOf(Slots[n + 1].time)

\* both labels are returned although the later shift comes first in the table
C7_Witness ==
    /\ Returned
    /\ \E i, j \in EligibleShifts :
          /\ i < j
          /\ StartOf(j) < StartOf(i)
          /\ StartOf(i) \in ReturnedMinutes
          /\ StartOf(j) \in ReturnedMinutes

\* the only eligible shift has room in every slot: nothing it generates is filtered
OnlyShift(i) ==
    /\ EligibleShifts = {i}
    /\ PatientsOf(i) > 0
    /\ ActiveBookings = {}

\* C8: a single shift with end >= start and duration d > 0 yields exactly
\* floor((end - start) / d) labels, start, start + d, ...; the remainder is
\* dropped.
C8_RemainderDropped ==
    Returned =>
        \A i \in DOMAIN doctor_schedules :
            OnlyShift(i) /\ StepOfQ > 0 /\ EndOf(i) >= StartOf(i) =>
                /\ Len(Slots) = (EndOf(i) - StartOf(i)) \div StepOfQ
                /\ \A n \in DOMAIN Slots :
                      minutesOf(Slots[n].time) = StartOf(i) + (n - 1) * StepOfQ

\* shift 07:00-07:50 with duration 30 yields the label 07:00 alone
C8_Witness ==
    /\ Returned
    /\ \E i \in DOMAIN doctor_schedules :
          /\ OnlyShift(i)
          /\ doctor_schedules[i].start_time = <<7, 0, 0>>
          /\ doctor_schedules[i].end_time = <<7, 50, 0>>
    /\ StepOfQ = 30
    /\ Len(Slots) = 1
    /\ Slots[1].time = <<7, 0>>

ErrorOutcomes == {"BadRequest", "NotFound", "Error"}

\* C9: a request for a service that has no row fails with NotFound, whatever
\* the doctors and schedules of the clinic are.
C9_UnknownService ==
    Answered /\ ~ServiceKnown => response.outcome = "NotFound"

\* NotFound for an unknown service at a clinic without a doctor of its own
C9_Witness ==
    /\ Answered
    /\ ~ServiceKnown
    /\ response.req.fail = "none"
    /\ response.outcome = "NotFound"
    /\ \A d \in doctors : d.clinic_id # QClinic
    /\ services # {}

\* C10: when the service exists and every read succeeds no error is returned:
\* no eligible doctor gives the empty array, no available schedule on the
\* date gives the empty array, and without bookings the slots are still
\* computed, all with booked = 0.
C10_EmptyIsNoError ==
    Answered /\ ServiceKnown /\ response.req.fail = "none" =>
        /\ response.outcome \notin ErrorOutcomes
        /\ EligibleDoctorIds = {} => response.outcome = "ok" /\ Slots = <<>>
        /\ EligibleShifts = {} => response.outcome = "ok" /\ Slots = <<>>
        /\ response.outcome = "ok" /\ ActiveBookings = {} =>
              /\ ReturnedMinutes = {t \in GridMinutes : PooledCapacity(t) > 0}
              /\ \A n \in DOMAIN Slots : Slots[n].booked = 0

\* slots are returned from a store without any booking
C10_Witness ==
    /\ Returned
    /\ response.req.fail = "none"
    /\ bookings = <<>>
    /\ Slots # <<>>

-----------------------------------------------------------------------------
(* C11 .. C14: errors and effects of one call *)

CallDone == call.pc = "done"

\* a parameter of the request in progress is absent or the empty string
SomeParamAbsent ==
    \E p \in {"clinic_id", "service_id", "date"} : call.req[p] = NULL

Issued(table) == \E i \in DOMAIN call.issued : call.issued[i] = table

\* C11: a request that lacks clinic_id, service_id or date, or carries it
\* empty, fails with BadRequest, a client error, and no read of the data
\* layer is issued for it, whatever the other two parameters and the store.
C11_MissingParam ==
    call.pc # "idle" /\ SomeParamAbsent =>
        /\ CallDone
        /\ call.outcome = "BadRequest"
        /\ httpStatus(call.outcome) \in 400..499
        /\ call.issued = <<>>

\* BadRequest for a request without a date whose service has no row and
\* whose first read would have failed
C11_Witness ==
    /\ CallDone
    /\ call.req.date = Missing
    /\ call.req.clinic_id # Missing
    /\ call.req.service_id = Some("s2")
    /\ \A r \in services : r.id # "s2"
    /\ call.req.fail = "services"
    /\ call.outcome = "BadRequest"

\* C12 as stated: a request whose date is present but is no calendar date
\* ends in BadRequest, never in a slot list, NotFound or a server error;
\* taken where every read succeeds, so that nothing but the date is amiss.
C12_MalformedRejected ==
    CallDone /\ ~SomeParamAbsent /\ call.req.date = Some(NotADate)
             /\ call.req.fail = "none" =>
        call.outcome = "BadRequest"

\* C13: when the read of doctors, of doctor_schedules or of bookings is
\* issued and fails, the call ends in a server error (HTTP 500) and returns
\* no slot list.
C13_ReadFailure ==
    CallDone /\ call.req.fail \in {"doctors", "doctor_schedules", "bookings"}
             /\ Issued(call.req.fail) =>
        /\ call.outcome = "Error"
        /\ httpStatus(call.outcome) = 500
        /\ call.body = <<>>

\* the read of bookings fails for a request whose shifts have free slots
\* and whose bookings table is empty
C13_Witness ==
    /\ CallDone
    /\ call.req.fail = "bookings"
    /\ Issued("bookings")
    /\ call.outcome = "Error"
    /\ bookings = <<>>
    /\ computeSlots(call.schedules, <<>>, call.duration[1]) # <<>>

\* what getAvailableSlots answers to request req on the tables db
AnswerTo(db, req) == getAvailableSlots(db, req.clinic_id, req.service_id, req.date, req.fail)

\* C14: getAvailableSlots performs no write: no step of a call, whether the
\* call goes on, returns slots, returns the empty array or fails, changes a
\* row of services, doctors, doctor_services, doctor_schedules, bookings or
\* payments; and it keeps no state between requests: a call that ran on a
\* store at rest answers what the store and its own request determine,
\* whatever calls were answered before it.
C14_NoWrites ==
    [][/\ call' # call => store' = store
       /\ call'.pc = "done" /\ Len(trail') = 1 =>
              /\ call'.outcome = AnswerTo(Db', call'.req).outcome
              /\ call'.body = AnswerTo(Db', call'.req).body]_vars

\* a call has returned slots and the store holds what it held at the receipt,
\* a pending booking and its payment included
C14_Witness ==
    /\ CallDone
    /\ call.outcome = "ok"
    /\ call.body # <<>>
    /\ Issued("bookings")
    /\ trail = <<Db>>
    /\ \E j \in DOMAIN bookings : bookings[j].status = "pending"
    /\ payments # <<>>

-----------------------------------------------------------------------------
(* C15 .. C19: the answer as a function of the store *)

\* the orders in which the data layer may return the rows of a table
Orders(table) ==
    {[i \in 1..Len(table) |-> table[p[i]]] :
        p \in {f \in [1..Len(table) -> 1..Len(table)] :
                  \A a, b \in 1..Len(table) : f[a] = f[b] => a = b}}

\* C15: on a fixed store, a further call with the same clinic_id, service_id
\* and date returns the same ordered sequence of slots (labels, capacity,
\* booked, available), in whatever order the data layer returns the rows of
\* doctor_schedules and of bookings to it.
C15_Idempotent ==
    Answered =>
        \A sch \in Orders(doctor_schedules), bk \in Orders(bookings) :
            LET again == AnswerTo([Db EXCEPT !.doctor_schedules = sch, !.bookings = bk],
                                  response.req)
            IN  again.outcome = response.outcome /\ again.body = Slots

\* two slots are returned from two shifts stored later shift first, with
\* two active bookings at different times
C15_Witness ==
    /\ Returned
    /\ Len(Slots) >= 2
    /\ \E i, j \in EligibleShifts : i < j /\ StartOf(j) < StartOf(i)
    /\ \E a, b \in ActiveBookings :
          bookings[a].booking_time.time # bookings[b].booking_time.time
    /\ \E n \in DOMAIN Slots : Slots[n].booked > 0

\* C16 as stated: every call terminates, whatever duration_minutes the
\* service row holds: the walk of every shift ends.
C16_Terminates ==
    Answered => response.outcome # "diverges"

\* C17 as stated: the list a call returns is the list computed from the
\* contents the store had at one instant of the call, also when bookings are
\* created and shifts or doctors withdrawn between its reads.
C17_SnapshotRead ==
    CallDone /\ call.outcome = "ok" =>
        \E i \in DOMAIN trail :
            /\ AnswerTo(trail[i], call.req).outcome = "ok"
            /\ AnswerTo(trail[i], call.req).body = call.body

\* The variant the specification allows: the reads are issued together and
\* the merge waits for all of them.  The errors with which it can end: the
\* one of every read that failed, whichever of them is reported.
concurrentErrors(db, req) ==
    LET service == ReadService(db.services, req.service_id[1], req.fail)
        docs == ReadDoctors(db.doctors, db.doctor_services, req.clinic_id[1],
                            req.service_id[1])
    IN  (IF service.error \/ service.data = NULL THEN {"NotFound"} ELSE {})
        \cup (IF req.fail = "doctors" THEN {"Error"} ELSE {})
        \cup (IF req.fail = "doctor_schedules" /\ docs # {} THEN {"Error"} ELSE {})
        \cup (IF req.fail = "bookings" THEN {"Error"} ELSE {})

\* its merge, once every read has succeeded
concurrentMerge(db, req) ==
    LET service == ReadService(db.services, req.service_id[1], req.fail)
        duration == Coalesce(service.data[1].duration_minutes, DefaultDuration)
        docs == ReadDoctors(db.doctors, db.doctor_services, req.clinic_id[1],
                            req.service_id[1])
        schedules == ReadSchedules(db.doctor_schedules, req.date[1], {d.id : d \in docs})
        rows == ReadBookings(db.bookings, req.clinic_id[1], req.service_id[1], req.date[1])
    IN  IF docs = {} \/ schedules = <<>> THEN Reply("ok", <<>>)
        ELSE IF \E i \in 1..Len(schedules) : WalkDiverges(schedules[i], duration)
        THEN Reply("diverges", <<>>)
        ELSE Reply("ok", computeSlots(schedules, rows, duration))

\* the answers the variant can give
concurrentSlots(db, req) ==
    IF req.clinic_id = Missing \/ req.service_id = Missing \/ req.date = Missing
    THEN {Reply("BadRequest", <<>>)}
    ELSE IF concurrentErrors(db, req) # {}
    THEN {Reply(e, <<>>) : e \in concurrentErrors(db, req)}
    ELSE {concurrentMerge(db, req)}

\* the answer of the call in progress
CallReply == Reply(call.outcome, call.body)

Covers(i, t) == StartOf(i) <= t /\ t + StepOfQ <= EndOf(i)

\* C19 as stated: the capacity of a label returned is the sum of
\* max_patients over the eligible shifts that cover its slot, the shifts
\* whose start is not a multiple of the duration away from it included.
C19_CoveringShifts ==
    Returned =>
        \A n \in DOMAIN Slots :
            Slots[n].capacity =
                SumPatients({i \in EligibleShifts : Covers(i, minutesOf(Slots[n].time))})

\* C19, amended: the capacity of a label returned is the sum of
\* max_patients over the eligible shifts that cover its slot and whose start
\* is a multiple of the duration before it; a shift that covers the slot
\* from a start that is not adds nothing.
C19_AlignedShifts ==
    Returned =>
        \A n \in DOMAIN Slots :
            Slots[n].capacity =
                SumPatients({i \in EligibleShifts :
                                /\ Covers(i, minutesOf(Slots[n].time))
                                /\ (minutesOf(Slots[n].time) - StartOf(i)) % StepOfQ = 0})

\* a label is returned with the capacity of the shift that starts at it,
\* while a shift with room for patients covers its slot from an earlier,
\* unaligned start
C19_Witness ==
    /\ Returned
    /\ \E n \in DOMAIN Slots : \E i, j \in EligibleShifts :
          /\ StartOf(j) = minutesOf(Slots[n].time)
          /\ Covers(i, minutesOf(Slots[n].time))
          /\ (minutesOf(Slots[n].time) - StartOf(i)) % StepOfQ # 0
          /\ PatientsOf(i) > 0
          /\ Slots[n].capacity = PatientsOf(j)

-----------------------------------------------------------------------------
(* C20: the answer after further bookings *)

\* the bookings created since the request was answered, by position
CreatedSince == (Len(trail[1].bookings) + 1)..Len(bookings)

\* what the request answered is answered now
AnswerNow == AnswerTo(Db, response.req)

\* booking b is active, of the queried clinic, service and date, at exactly label t
CreatedAt(b, t) == CountsForQ(b) /\ b.booking_time.time = <<t[1], t[2], 0>>

Others(slots, t) == SelectSeq(slots, LAMBDA s : s.time # t)

\* C20: when a slot was returned with label t and available = n, and j
\* bookings have been created since, all of them active and at exactly t for
\* the queried clinic, service and date, the same request now returns the
\* slot with available = n - j if j < n and does not return it if j >= n,
\* and returns every other slot as before.
C20_AvailableCountsDown ==
    Returned /\ CreatedSince # {} =>
        \A n \in DOMAIN Slots :
            (\A k \in CreatedSince : CreatedAt(bookings[k], Slots[n].time)) =>
                LET t == Slots[n].time
                    j == Cardinality(CreatedSince)
                    now == AnswerNow.body
                IN  /\ AnswerNow.outcome = "ok"
                    /\ j < Slots[n].available =>
                          \E m \in DOMAIN now :
                              /\ now[m].time = t
                              /\ now[m].available = Slots[n].available - j
                              /\ now[m].capacity = Slots[n].capacity
                    /\ j >= Slots[n].available =>
                          \A m \in DOMAIN now : now[m].time # t
                    /\ Others(now, t) = Others(Slots, t)

\* a slot returned with two places left is gone after two bookings created
\* at its label, and the other slot is still returned
C20_Witness ==
    /\ Returned
    /\ Cardinality(CreatedSince) = 2
    /\ \E n \in DOMAIN Slots :
          /\ Slots[n].available = 2
          /\ Slots[n].booked > 0
          /\ \A k \in CreatedSince : CreatedAt(bookings[k], Slots[n].time)
          /\ \A m \in DOMAIN AnswerNow.body : AnswerNow.body[m].time # Slots[n].time
    /\ AnswerNow.body # <<>>

-----------------------------------------------------------------------------
(* C21 .. C23: who contributes, the step, the failing service read *)

\* the doctor of a schedule row, for the request answered: a row of the
\* doctors table of another clinic, or one that is switched off, or one
\* without a link to the service; a doctor without a row is none of these
OtherClinic(id) == \E d \in doctors : d.id = id /\ d.clinic_id # QClinic

SwitchedOff(id) == \E d \in doctors : d.id = id /\ ~d.is_available

Unlinked(id) == \A l \in doctor_services : ~(l.doctor_id = id /\ l.service_id = QService)

\* schedule row i is one of the five kinds that must not count
Ineligible(i) ==
    LET row == doctor_schedules[i]
    IN  \/ OtherClinic(row.doctor_id)
        \/ SwitchedOff(row.doctor_id)
        \/ Unlinked(row.doctor_id)
        \/ ~row.is_available
        \/ row.date # QDate

\* rows from position n on, without those at the positions in gone
RECURSIVE RowsKept(_, _, _)
RowsKept(rows, gone, n) ==
    IF n > Len(rows) THEN <<>>
    ELSE IF n \in gone THEN RowsKept(rows, gone, n + 1)
    ELSE <<rows[n]>> \o RowsKept(rows, gone, n + 1)

\* the store without the schedule rows at the positions in gone
WithoutShifts(gone) == [Db EXCEPT !.doctor_schedules = RowsKept(doctor_schedules, gone, 1)]

\* C21: a schedule row of a doctor of another clinic, of a doctor with
\* is_available = false, of a doctor without a link to the queried service,
\* a schedule row with is_available = false and a schedule row of another
\* date contribute no label and no capacity: the request is answered as it
\* is on the store without any one of these rows, and without all of them.
C21_OnlyEligible ==
    Answered =>
        LET out == {i \in DOMAIN doctor_schedules : Ineligible(i)}
            answer == Reply(response.outcome, response.body)
        IN  /\ \A i \in out : AnswerTo(WithoutShifts({i}), response.req) = answer
            /\ AnswerTo(WithoutShifts(out), response.req) = answer

\* slots are returned from a store where the shift of a switched-off doctor of
\* the queried clinic and service, open on the queried date, stands beside a
\* shift that counts
C21_Witness ==
    /\ Returned
    /\ Slots # <<>>
    /\ \E i \in DOMAIN doctor_schedules :
          LET row == doctor_schedules[i]
          IN  /\ SwitchedOff(row.doctor_id)
              /\ ~OtherClinic(row.doctor_id)
              /\ ~Unlinked(row.doctor_id)
              /\ row.is_available
              /\ row.date = QDate

\* the duration_minutes column of the queried service
StoredDuration == (CHOOSE r \in services : r.id = QService).duration_minutes

\* shift i has room left at every label, whatever the bookings
NeverFull(i) == PatientsOf(i) > Cardinality(ActiveBookings)

\* the minutes start, start + step, start + 2 * step, ... of shift i whose slot
\* of length step ends by the end of the shift
StepsOf(i, step) ==
    {t \in StartOf(i)..EndOf(i) : (t - StartOf(i)) % step = 0 /\ t + step <= EndOf(i)}

\* C22: the slot step is the stored duration_minutes of the service, and 30
\* exactly when the column is null on an existing service; a stored value is
\* used as it is, also 0, which is not replaced by the default: the labels
\* returned lie at start + k * step of an eligible shift, every such label of
\* a shift that cannot be full is returned, and with a stored 0 the walk
\* never leaves the start of the shift, so that no grid of 30 is answered.
C22_Step ==
    Answered /\ response.req.fail = "none" /\ ServiceKnown /\ EligibleShifts # {} =>
        IF StoredDuration = NULL
        THEN /\ Returned
             /\ ReturnedMinutes \subseteq UNION {StepsOf(i, 30) : i \in EligibleShifts}
             /\ \A i \in EligibleShifts : NeverFull(i) => StepsOf(i, 30) \subseteq ReturnedMinutes
        ELSE IF StoredDuration[1] > 0
        THEN /\ Returned
             /\ ReturnedMinutes \subseteq
                    UNION {StepsOf(i, StoredDuration[1]) : i \in EligibleShifts}
             /\ \A i \in EligibleShifts :
                    NeverFull(i) => StepsOf(i, StoredDuration[1]) \subseteq ReturnedMinutes
        ELSE response.outcome = "diverges"

\* a service without duration_minutes is answered with the labels 07:00 and 07:30
C22_Witness ==
    /\ Returned
    /\ ServiceKnown
    /\ StoredDuration = NULL
    /\ ReturnedMinutes = {420, 450}

\* the request in progress, put for a service_id no row of services carries
\* and with no read failing
UnknownServiceAnswer ==
    AnswerTo([Db EXCEPT !.services = {}], [call.req EXCEPT !.fail = "none"])

\* C23: when the read of services itself fails, also while the service
\* exists, the call ends with NotFound, a client error (HTTP 404) and not a
\* server error, after that one read; the reply is the one an unknown
\* service_id gets, so that the caller cannot tell the two apart.
C23_ServiceReadFailure ==
    CallDone /\ ~SomeParamAbsent /\ call.req.fail = "services" =>
        /\ call.outcome = "NotFound"
        /\ httpStatus(call.outcome) = 404
        /\ call.issued = <<"services">>
        /\ CallReply = UnknownServiceAnswer

\* the read of services fails for a service that exists and that would have
\* been answered with slots
C23_Witness ==
    /\ CallDone
    /\ call.req.fail = "services"
    /\ call.outcome = "NotFound"
    /\ \E s \in services : Some(s.id) = call.req.service_id
    /\ AnswerTo(Db, [call.req EXCEPT !.fail = "none"]).body # <<>>

-----------------------------------------------------------------------------
(* C24 .. C30: bookings created, polled and paid *)

\* capacityByTime as getAvailableSlots builds it for clinic c, service s with
\* the step duration, and date d
CapacityIndex(c, s, d, duration) ==
    CapacityByTime(ReadSchedules(doctor_schedules, d,
                                 {x.id : x \in ReadDoctors(doctors, doctor_services, c, s)}),
                   duration, <<>>)

\* bookedByTime as getAvailableSlots builds it
BookedIndex(c, s, d) == CountBookings(ReadBookings(bookings, c, s, d), <<>>)

\* the steps of the services that have a row and a positive step
StepsOfService(s) ==
    {Coalesce(r.duration_minutes, DefaultDuration) : r \in {x \in services : x.id = s}}
        \ {0}

\* C24: whatever calls of createBooking, getBookingById and handleWebhook
\* have run, and however they interleaved, no label that getAvailableSlots
\* generates for a clinic, a service and a date has more bookings of status
\* pending or paid than its pooled capacity: capacity - booked is never
\* negative.
C24_NoOverbooking ==
    \A c \in ClinicIds, s \in ServiceIds, d \in Dates :
        \A duration \in StepsOfService(s) :
            LET capacityByTime == CapacityIndex(c, s, d, duration)
            IN  \A i \in DOMAIN capacityByTime :
                    capacityByTime[i][2]
                        - MapGet(BookedIndex(c, s, d), capacityByTime[i][1], 0) >= 0

\* the status of booking k changes in this step, from status from to status to
StatusChange(k, from, to) ==
    /\ k \in DOMAIN bookings
    /\ bookings[k].status = from
    /\ bookings'[k].status = to

\* C25: under every interleaving of createBooking, getBookingById and
\* handleWebhook, a booking is created as pending and its status changes
\* from pending to paid or from pending to expired only: a paid booking is
\* never set to expired and an expired booking is never set to paid.
C25_Lifecycle ==
    [][/\ Len(bookings') >= Len(bookings)
       /\ \A k \in DOMAIN bookings' :
             IF k \in DOMAIN bookings
             THEN \/ bookings'[k].status = bookings[k].status
                  \/ StatusChange(k, "pending", "paid")
                  \/ StatusChange(k, "pending", "expired")
             ELSE bookings'[k].status = "pending"]_vars

\* needle occurs in text
Occurs(needle, text) ==
    \E i \in 0..(Len(text) - Len(needle)) : SubSeq(text, i + 1, i + Len(needle)) = needle

\* text holds DATLICH, in either case, and after it the UUID id, with or
\* without its dashes
Names(text, id) ==
    \E i \in DOMAIN text :
        /\ i + 6 <= Len(text)
        /\ [j \in 1..7 |-> ToUpper(text[i + j - 1])] = <<"D", "A", "T", "L", "I", "C", "H">>
        /\ Occurs(Stripped(id), Stripped(SubSeq(text, i + 7, Len(text))))

\* a call of handleWebhook goes on to its reads only for an incoming
\* transfer whose content or description names the booking id it looks up,
\* and with the amount of the transfer
ParsedOnlyIf ==
    \A payload \in WebhookPayloads :
        Parsed(payload).pc # "done" =>
            /\ payload.transferType = "in"
            /\ \E text \in {payload.content, payload.description} \ {NULL} :
                  Names(text[1], Parsed(payload).bookingId[1])
            /\ Parsed(payload).paidAmount =
                  (IF payload.transferAmount = NULL THEN 0 ELSE payload.transferAmount[1])

\* a step of the call of handleWebhook
HookStep == hookCall' # hookCall

\* the step writes to bookings or to payments
Writes == bookings' # bookings \/ payments' # payments

\* the conditions under which the call in progress may write: it has read a
\* booking that is in the store and was not paid, and a pending payment of
\* that booking, of an amount the transfer covers
MayPay ==
    /\ hookCall.transferType = "in"
    /\ hookCall.bookingId # NULL
    /\ hookCall.booking # NULL
    /\ hookCall.booking[1].id \in DOMAIN bookings
    /\ BookingUuid(hookCall.booking[1].id) = hookCall.bookingId[1]
    /\ hookCall.booking[1].status # "paid"
    /\ hookCall.payment # NULL
    /\ hookCall.payment[1].id \in DOMAIN payments
    /\ payments[hookCall.payment[1].id].booking_id = hookCall.booking[1].id
    /\ hookCall.payment[1].status = "pending"
    /\ hookCall.paidAmount >= hookCall.payment[1].amount

\* the step sets to paid the booking and the payment that were read, nothing else
PaysWhatWasRead ==
    /\ \A k \in DOMAIN bookings :
          bookings'[k] # bookings[k] =>
              /\ k = hookCall.booking[1].id
              /\ bookings'[k] = [bookings[k] EXCEPT !.status = "paid"]
    /\ \A j \in DOMAIN payments :
          payments'[j] # payments[j] =>
              /\ j = hookCall.payment[1].id
              /\ payments'[j].status = "paid"
              /\ payments'[j].booking_id = payments[j].booking_id
              /\ payments'[j].amount = payments[j].amount
    /\ Len(bookings') = Len(bookings)
    /\ Len(payments') = Len(payments)

\* the call returns in this step, with something else than { success: true }
ReturnsWithoutSuccess == hookCall'.pc = "done" /\ hookCall'.reply # Some(Success)

\* the call has written nothing when it returns without success: it returns
\* from its reads, and its reads write nothing
WroteNothing == hookCall.pc \in {"idle", "done", "getPayment"} /\ ~Writes

\* C26 as stated: handleWebhook sets a booking and its payment to paid only
\* if transferType is 'in', a booking id following DATLICH is found, the
\* booking exists and is not already paid, a pending payment of it exists
\* and transferAmount >= its amount; in every other case it returns
\* { ok: true } and nothing else, and changes no booking and no payment.
C26_PaidOnlyIfElseOk ==
    [][HookStep =>
          /\ ParsedOnlyIf
          /\ Writes => MayPay /\ PaysWhatWasRead
          /\ ReturnsWithoutSuccess => WroteNothing /\ hookCall'.reply = Some(Ok)]_vars

\* the booking that the arriving call names is paid
NamesPaidBooking ==
    /\ hookCall'.bookingId # NULL
    /\ \E k \in DOMAIN bookings :
          BookingUuid(k) = hookCall'.bookingId[1] /\ bookings[k].status = "paid"

\* C26, amended: the same, except that a call which finds its booking
\* already paid returns { ok: true, alreadyPaid: true }; every other call
\* that does not pay returns { ok: true }.
C26_PaidOnlyIf ==
    [][HookStep =>
          /\ ParsedOnlyIf
          /\ Writes => MayPay /\ PaysWhatWasRead
          /\ ReturnsWithoutSuccess =>
                /\ WroteNothing
                /\ hookCall'.reply \in {Some(Ok), Some(AlreadyPaid)}
                /\ hookCall'.reply = Some(AlreadyPaid) => NamesPaidBooking]_vars

\* a call has set the first booking and its payment to paid and returned
\* { success: true }
C26_Witness ==
    /\ hookCall.pc = "done"
    /\ hookCall.reply = Some(Success)
    /\ hookCall.bookingId = Some(BookingUuid(1))
    /\ bookings[1].status = "paid"
    /\ payments[1].status = "paid"
    /\ payments[1].method = "sepay"

\* the call of handleWebhook returns { success: true } in this step
ReturnsSuccess ==
    /\ hookCall.pc # "done"
    /\ hookCall'.pc = "done"
    /\ hookCall'.reply = Some(Success)

\* C27: whenever handleWebhook returns { success: true } for a booking, the
\* status of the booking and the status of its payment are both 'paid' at
\* the moment of the return, also when an update reports an error and when
\* getBookingById runs at the same time: the payment is never left paid
\* with the booking pending or expired.
C27_SuccessMeansPaid ==
    [][ReturnsSuccess =>
          /\ bookings'[hookCall.booking[1].id].status = "paid"
          /\ payments'[hookCall.payment[1].id].status = "paid"]_vars

\* the call of createBooking returns or throws in this step
CreateEnds == createCall.pc # "done" /\ createCall'.pc = "done"

\* C28: createBooking is all or nothing: when it returns a bookingId, the
\* booking is in the store and exactly one payment exists for it, pending
\* and of amount 2000; when it fails with BadRequest, as when the insert of
\* the payment fails, no booking of the call is left in the store.
C28_AllOrNothing ==
    [][CreateEnds =>
          IF createCall'.outcome = "ok"
          THEN /\ createCall'.id \in DOMAIN bookings'
               /\ \E j \in DOMAIN payments' :
                     /\ PaymentsOfBooking(payments', createCall'.id) = {j}
                     /\ payments'[j].status = "pending"
                     /\ payments'[j].amount = 2000
          ELSE /\ createCall'.outcome = "BadRequest"
               /\ createCall'.id \notin DOMAIN bookings']_vars

\* a call of handleWebhook arrives in this step
HookArrives == hookCall.pc \in {"idle", "done"} /\ HookStep

QueryFor(b) ==
    [clinic_id |-> Some(b.clinic_id), service_id |-> Some(b.service_id),
     date |-> Some(b.booking_time.date), fail |-> "none"]

\* bookedByTime of getAvailableSlots, on the tables db, at the label of booking b
BookedAt(db, b) ==
    MapGet(CountBookings(ReadBookings(db.bookings, b.clinic_id, b.service_id,
                                      b.booking_time.date), <<>>),
           bookingLabel(b.booking_time), 0)

\* the slots of body at label t
SlotsAt(body, t) == SelectSeq(body, LAMBDA s : s.time = t)

\* booking k counts: without it the label of the booking has booked one lower
Counted(k) ==
    BookedAt(Db, bookings[k])
        = BookedAt([Db EXCEPT !.bookings[k].status = "expired"], bookings[k]) + 1

\* in this step the label of booking k loses one booking, in the index and in
\* the answer to the request for its slots, and the other slots stay
ReleasesOne(k) ==
    LET b == bookings[k]
        t == bookingLabel(b.booking_time)
        before == AnswerTo(Db, QueryFor(b)).body
        after == AnswerTo(Db', QueryFor(b)).body
    IN  /\ BookedAt(Db', b) = BookedAt(Db, b) - 1
        /\ \A n \in DOMAIN after : after[n].time = t => after[n].booked = BookedAt(Db, b) - 1
        /\ \A n \in DOMAIN before :
              before[n].time = t =>
                  SlotsAt(after, t) = <<[before[n] EXCEPT !.booked = @ - 1,
                                                          !.available = @ + 1]>>
        /\ Others(after, t) = Others(before, t)

\* C30: expiry is lazy and releases capacity.  A pending booking, also one
\* created more than five minutes ago, counts as booked in getAvailableSlots;
\* its status becomes expired only in the update of a getBookingById call
\* for it, more than five minutes after its creation; from that step on the
\* request for its slots is answered with booked one lower at its label,
\* the rest as before; and answering a request for slots changes no booking.
C30_LazyExpiry ==
    [][/\ \A k \in DOMAIN bookings : bookings[k].status = "pending" => Counted(k)
       /\ response' # response => bookings' = bookings
       /\ \A k \in DOMAIN bookings :
             StatusChange(k, "pending", "expired") =>
                 /\ getCall.pc = "update"
                 /\ getCall.bookingId = Some(BookingUuid(k))
                 /\ clock - bookings[k].created_at > 5
                 /\ ReleasesOne(k)]_vars

\* the first booking was found expired by getBookingById at minute 10, and
\* the request answered after that returns 07:00 with one booking, the
\* second, where two were counted before
C30_Witness ==
    /\ Len(bookings) = 2
    /\ bookings[1].status = "expired"
    /\ bookings[2].status = "pending"
    /\ clock - bookings[2].created_at > 5
    /\ getCall.pc = "done"
    /\ getCall.bookingId = Some(BookingUuid(1))
    /\ Returned
    /\ \E n \in DOMAIN Slots :
          Slots[n].time = <<7, 0>> /\ Slots[n].capacity = 2 /\ Slots[n].booked = 1

=============================================================================
